---- MODULE Spec2Model ----
(***************************************************************************)
(* The three example programs of the repository, as one state machine.     *)
(*   prog = 1  examples/basic_operations : manual runtime, one child task  *)
(*   prog = 2  examples/shared_state     : ten tasks increment a counter   *)
(*                                         behind Arc<tokio::sync::Mutex>  *)
(*   prog = 3  examples/spawning         : three tasks read an Arc<Vec>    *)
(* A behaviour is one run of one executable: Init picks which one.  The    *)
(* parent (the future driven by block_on) runs on the calling thread; the  *)
(* spawned tasks run on the runtime's workers, in parallel.                *)
(***************************************************************************)
EXTENDS Integers, Sequences, FiniteSets, TLC

VARIABLES
    prog,       \* which executable runs: 1, 2 or 3
    nworkers,   \* worker threads of the runtime
    mpc,        \* position of main / the parent future
    k,          \* loop variable of the spawn loop (spawns issued so far)
    handles,    \* the handles vector: task ids in spawn order, not yet awaited
    tpc,        \* position of every spawned task
    permits,    \* permits of the mutex's semaphore (1 = free, 0 = held)
    counter,    \* the integer behind the mutex
    tmp,        \* per task: the value loaded by `*num += 1` before the store
    data,       \* the vector behind the Arc of program 3
    strong,     \* strong count of the program's Arc (0 = value dropped)
    out,        \* standard output: the lines printed so far
    status,     \* "running", "exit0" (main returned) or "panicked" (main panicked)
    diag,       \* the panic message of main, when it panicked
    elapsed,    \* milliseconds elapsed of the child's sleep (program 1)
    awaited,    \* per task: how many times its handle was awaited to completion
    descending  \* history: every task that finished so far did so before all
                \* tasks spawned ahead of it

vars == <<prog, nworkers, mpc, k, handles, tpc, permits, counter, tmp, data,
          strong, out, status, diag, elapsed, awaited, descending>>

\* ---------------------------------------------------------------- constants

\* for _ in 0..10               (shared_state)
NumIncrements == 10
\* for i in 0..3                (spawning)
NumReaders == 3
\* Duration::from_millis(100)   (basic_operations)
DelayMs == 100
\* the largest worker pool the model runs
MaxWorkers == 2

\* vec![1, 2, 3, 4, 5]
InitialData == <<1, 2, 3, 4, 5>>

\* how many tasks each program spawns
NumTasks(p) == CASE p = 1 -> 1
                 [] p = 2 -> NumIncrements
                 [] p = 3 -> NumReaders

TaskIds == DOMAIN tpc

\* ---------------------------------------------------------------- helpers

Line(text, num, vec) == [text |-> text, num |-> num, vec |-> vec]

HelloLine     == Line("Hello from Tokio runtime!", 0, <<>>)
ChildLine     == Line("Task completed", 0, <<>>)
ShutdownLine  == Line("Runtime shutdown complete", 0, <<>>)
AllDoneLine   == Line("All tasks completed", 0, <<>>)
\* println!("Counter: {}", v)
CounterLine(v) == Line("Counter: {}", v, <<>>)
\* println!("Task {} sees: {:?}", i, data_clone)
SeesLine(i, v) == Line("Task {} sees: {:?}", i, v)

NoDiag == [what |-> "none", task |-> 0]

\* a task whose body has ended: normally, or by a panic
Finished(i) == tpc[i] \in {"done", "panicked"}

\* positions at which a task is being polled on a worker thread
OnWorker == {"running", "locked", "loaded", "stored"}

Busy == Cardinality({i \in TaskIds : tpc[i] \in OnWorker})

WorkerFree == Busy < nworkers

\* the history variable after task i finishes
DescendingAfter(i) == descending /\ \A j \in TaskIds : Finished(j) => i < j

\* ---------------------------------------------------------------- Init

Init ==
    /\ prog \in 1..3
    /\ nworkers \in 1..MaxWorkers
    /\ mpc = "new"
    /\ k = 0
    /\ handles = <<>>
    /\ tpc = [i \in 0..(NumTasks(prog) - 1) |-> "none"]
    /\ permits = 0
    /\ counter = 0
    /\ tmp = [i \in 0..(NumTasks(prog) - 1) |-> 0]
    /\ data = <<>>
    /\ strong = 0
    /\ out = <<>>
    /\ status = "running"
    /\ diag = NoDiag
    /\ elapsed = 0
    /\ awaited = [i \in 0..(NumTasks(prog) - 1) |-> 0]
    /\ descending = TRUE

\* ---------------------------------------------------------------- shared steps

\* main panics: unwrap() of an Err.  The process ends with the panic message.
MainPanics(what, task) ==
    /\ status' = "panicked"
    /\ diag' = [what |-> what, task |-> task]
    /\ mpc' = "dead"

\* RuntimeNew that notes a failed construction and tries again
RuntimeNew_Retry(ok, next) ==
    /\ mpc = "new"
    /\ IF ok
         THEN /\ mpc' = next
              /\ UNCHANGED <<status, diag>>
         ELSE /\ mpc' = "new"
              /\ diag' = [what |-> "Runtime::new", task |-> 0]
              /\ UNCHANGED status

\* Runtime::new().unwrap(), or the runtime #[tokio::main] builds: construction
\* either succeeds or returns Err, and the Err is unwrapped.
RuntimeNew(ok, next) ==
    /\ mpc = "new"
    /\ IF ok
         THEN /\ mpc' = next
              /\ UNCHANGED <<status, diag>>
         ELSE MainPanics("Runtime::new", 0)

\* SpawnTask with the handle put at the front of the vector
SpawnTask_PushFront(i) ==
    /\ tpc' = [tpc EXCEPT ![i] = "ready"]
    /\ handles' = <<i>> \o handles
    /\ k' = k + 1

\* tokio::spawn(..): task i becomes runnable at once; handles.push(handle).
SpawnTask(i) ==
    /\ tpc' = [tpc EXCEPT ![i] = "ready"]
    /\ handles' = Append(handles, i)
    /\ k' = k + 1

\* AwaitHead that resolves without waiting for the task's body to end
AwaitHead_NoWait(next) ==
    /\ handles # <<>>
    /\ LET h == Head(handles) IN
         IF tpc[h] # "panicked"
           THEN /\ handles' = Tail(handles)
                /\ awaited' = [awaited EXCEPT ![h] = @ + 1]
                /\ mpc' = IF Tail(handles) = <<>> THEN next ELSE mpc
                /\ UNCHANGED <<status, diag>>
           ELSE /\ MainPanics("JoinError", h)
                /\ UNCHANGED <<handles, awaited>>

\* AwaitHead in a loop that is left after its first turn
AwaitHead_FirstOnly(next) ==
    /\ handles # <<>>
    /\ LET h == Head(handles) IN
         /\ Finished(h)
         /\ IF tpc[h] = "done"
              THEN /\ handles' = Tail(handles)
                   /\ awaited' = [awaited EXCEPT ![h] = @ + 1]
                   /\ mpc' = next
                   /\ UNCHANGED <<status, diag>>
              ELSE /\ MainPanics("JoinError", h)
                   /\ UNCHANGED <<handles, awaited>>

\* AwaitHead without the unwrap: an Err is dropped like an Ok
AwaitHead_IgnoreErr(next) ==
    /\ handles # <<>>
    /\ LET h == Head(handles) IN
         /\ Finished(h)
         /\ handles' = Tail(handles)
         /\ awaited' = [awaited EXCEPT ![h] = @ + 1]
         /\ mpc' = IF Tail(handles) = <<>> THEN next ELSE mpc
         /\ UNCHANGED <<status, diag>>

\* AwaitHead in a loop that stops one handle short of the end of the vector
AwaitHead_OneShort(next) ==
    /\ handles # <<>>
    /\ LET h == Head(handles) IN
         /\ Finished(h)
         /\ IF tpc[h] = "done"
              THEN /\ handles' = Tail(handles)
                   /\ awaited' = [awaited EXCEPT ![h] = @ + 1]
                   /\ mpc' = IF Len(Tail(handles)) <= 1 THEN next ELSE mpc
                   /\ UNCHANGED <<status, diag>>
              ELSE /\ MainPanics("JoinError", h)
                   /\ UNCHANGED <<handles, awaited>>

\* handle.await.unwrap() on the first handle of the vector: resolves once the
\* task's body has ended; Ok moves on, Err (the body panicked) panics main.
AwaitHead(next) ==
    /\ handles # <<>>
    /\ LET h == Head(handles) IN
         /\ Finished(h)
         /\ IF tpc[h] = "done"
              THEN /\ handles' = Tail(handles)
                   /\ awaited' = [awaited EXCEPT ![h] = @ + 1]
                   /\ mpc' = IF Tail(handles) = <<>> THEN next ELSE mpc
                   /\ UNCHANGED <<status, diag>>
              ELSE /\ MainPanics("JoinError", h)
                   /\ UNCHANGED <<handles, awaited>>

\* a worker thread takes a runnable task from the run queue and polls it
StartTask(i) ==
    /\ tpc[i] = "ready"
    /\ WorkerFree
    /\ tpc' = [tpc EXCEPT ![i] = "running"]

\* the body of task i ends (ok) or panics (~ok); its captured Arc clone, if
\* any, is dropped either way
EndTask(i, ok, clones) ==
    /\ tpc' = [tpc EXCEPT ![i] = IF ok THEN "done" ELSE "panicked"]
    /\ strong' = strong - clones
    /\ descending' = DescendingAfter(i)

\* ---------------------------------------------------------------- program 1

P1_RuntimeNew ==
    /\ prog = 1 /\ status = "running"
    /\ \E ok \in BOOLEAN : RuntimeNew(ok, "hello")
    /\ UNCHANGED <<prog, nworkers, k, handles, tpc, permits, counter, tmp, data,
                   strong, out, elapsed, awaited, descending>>

\* println!("Hello from Tokio runtime!")
P1_Hello ==
    /\ prog = 1 /\ status = "running" /\ mpc = "hello"
    /\ out' = Append(out, HelloLine)
    /\ mpc' = "spawn"
    /\ UNCHANGED <<prog, nworkers, k, handles, tpc, permits, counter, tmp, data,
                   strong, status, diag, elapsed, awaited, descending>>

\* let handle = tokio::spawn(async { .. })
P1_Spawn ==
    /\ prog = 1 /\ status = "running" /\ mpc = "spawn"
    /\ SpawnTask(0)
    /\ mpc' = "join"
    /\ UNCHANGED <<prog, nworkers, permits, counter, tmp, data, strong, out,
                   status, diag, elapsed, awaited, descending>>

\* tokio::time::sleep(Duration::from_millis(100)).await, first poll: the timer
\* is registered and the task is suspended off its worker
P1_ChildSleep ==
    /\ prog = 1 /\ status = "running"
    /\ tpc[0] = "ready"
    /\ WorkerFree
    /\ tpc' = [tpc EXCEPT ![0] = "sleeping"]
    /\ elapsed' = 0
    /\ UNCHANGED <<prog, nworkers, mpc, k, handles, permits, counter, tmp, data,
                   strong, out, status, diag, awaited, descending>>

\* one millisecond passes while the child sleeps
P1_Tick ==
    /\ prog = 1 /\ status = "running"
    /\ tpc[0] = "sleeping"
    /\ elapsed < DelayMs
    /\ elapsed' = elapsed + 1
    /\ UNCHANGED <<prog, nworkers, mpc, k, handles, tpc, permits, counter, tmp,
                   data, strong, out, status, diag, awaited, descending>>

\* P1_ChildWake by a timer that fires without waiting for the deadline
P1_ChildWake_Early ==
    /\ prog = 1 /\ status = "running"
    /\ tpc[0] = "sleeping"
    /\ WorkerFree
    /\ tpc' = [tpc EXCEPT ![0] = "running"]
    /\ UNCHANGED <<prog, nworkers, mpc, k, handles, permits, counter, tmp, data,
                   strong, out, status, diag, elapsed, awaited, descending>>

\* the timer has fired: a worker polls the child again
P1_ChildWake ==
    /\ prog = 1 /\ status = "running"
    /\ tpc[0] = "sleeping"
    /\ elapsed >= DelayMs
    /\ WorkerFree
    /\ tpc' = [tpc EXCEPT ![0] = "running"]
    /\ UNCHANGED <<prog, nworkers, mpc, k, handles, permits, counter, tmp, data,
                   strong, out, status, diag, elapsed, awaited, descending>>

\* println!("Task completed"): the line is written, or the write fails and
\* println! panics inside the task
P1_ChildPrint ==
    /\ prog = 1 /\ status = "running"
    /\ tpc[0] = "running"
    /\ \E ok \in BOOLEAN :
         /\ EndTask(0, ok, 0)
         /\ out' = IF ok THEN Append(out, ChildLine) ELSE out
    /\ UNCHANGED <<prog, nworkers, mpc, k, handles, permits, counter, tmp, data,
                   status, diag, elapsed, awaited>>

\* handle.await.unwrap(), then the async block ends and block_on returns
P1_Join ==
    /\ prog = 1 /\ status = "running" /\ mpc = "join"
    /\ AwaitHead("shutdown")
    /\ UNCHANGED <<prog, nworkers, k, tpc, permits, counter, tmp, data, strong,
                   out, elapsed, descending>>

\* println!("Runtime shutdown complete"), then main returns
P1_Shutdown ==
    /\ prog = 1 /\ status = "running" /\ mpc = "shutdown"
    /\ out' = Append(out, ShutdownLine)
    /\ mpc' = "end"
    /\ status' = "exit0"
    /\ UNCHANGED <<prog, nworkers, k, handles, tpc, permits, counter, tmp, data,
                   strong, diag, elapsed, awaited, descending>>

Program1 ==
    \/ P1_RuntimeNew \/ P1_Hello \/ P1_Spawn \/ P1_ChildSleep \/ P1_Tick
    \/ P1_ChildWake \/ P1_ChildPrint \/ P1_Join \/ P1_Shutdown

\* ---------------------------------------------------------------- program 2

\* #[tokio::main]: the runtime is built and main's body is driven by block_on
P2_RuntimeNew ==
    /\ prog = 2 /\ status = "running"
    /\ \E ok \in BOOLEAN : RuntimeNew(ok, "create")
    /\ UNCHANGED <<prog, nworkers, k, handles, tpc, permits, counter, tmp, data,
                   strong, out, elapsed, awaited, descending>>

\* let counter = Arc::new(Mutex::new(0)); let mut handles = vec![];
P2_Create ==
    /\ prog = 2 /\ status = "running" /\ mpc = "create"
    /\ counter' = 0
    /\ permits' = 1
    /\ strong' = 1
    /\ handles' = <<>>
    /\ mpc' = "spawn"
    /\ UNCHANGED <<prog, nworkers, k, tpc, tmp, data, out, status, diag,
                   elapsed, awaited, descending>>

\* one turn of `for _ in 0..10`: Arc::clone, tokio::spawn, handles.push
P2_Spawn ==
    /\ prog = 2 /\ status = "running" /\ mpc = "spawn"
    /\ k < NumIncrements
    /\ strong' = strong + 1
    /\ SpawnTask(k)
    /\ mpc' = IF k + 1 = NumIncrements THEN "join" ELSE "spawn"
    /\ UNCHANGED <<prog, nworkers, permits, counter, tmp, data, out, status,
                   diag, elapsed, awaited, descending>>

\* P2_Lock by a lock that hands out its guard whether or not it is held
P2_Lock_NoWait(i) ==
    /\ prog = 2 /\ status = "running"
    /\ tpc[i] = "ready"
    /\ WorkerFree
    /\ permits' = permits - 1
    /\ tpc' = [tpc EXCEPT ![i] = "locked"]
    /\ UNCHANGED <<prog, nworkers, mpc, k, handles, counter, tmp, data, strong,
                   out, status, diag, elapsed, awaited, descending>>

\* P2_Lock by a lock that hands its permit to a waiter without waking it
P2_Lock_LostWakeup(i) ==
    /\ prog = 2 /\ status = "running"
    /\ tpc[i] = "ready"
    /\ WorkerFree
    /\ permits > 0
    /\ permits' = permits - 1
    /\ UNCHANGED <<prog, nworkers, mpc, k, handles, tpc, counter, tmp, data,
                   strong, out, status, diag, elapsed, awaited, descending>>

\* P2_Lock by a lock that serves its waiters strictly in spawn order
P2_Lock_SpawnOrder(i) ==
    /\ prog = 2 /\ status = "running"
    /\ tpc[i] = "ready"
    /\ \A j \in TaskIds : j < i => tpc[j] \notin {"none", "ready"}
    /\ WorkerFree
    /\ permits > 0
    /\ permits' = permits - 1
    /\ tpc' = [tpc EXCEPT ![i] = "locked"]
    /\ UNCHANGED <<prog, nworkers, mpc, k, handles, counter, tmp, data, strong,
                   out, status, diag, elapsed, awaited, descending>>

\* counter.lock().await resolves: the semaphore has a permit and the task takes
\* it.  Until then the task stays suspended at the await, off every worker.
P2_Lock(i) ==
    /\ prog = 2 /\ status = "running"
    /\ tpc[i] = "ready"
    /\ WorkerFree
    /\ permits > 0
    /\ permits' = permits - 1
    /\ tpc' = [tpc EXCEPT ![i] = "locked"]
    /\ UNCHANGED <<prog, nworkers, mpc, k, handles, counter, tmp, data, strong,
                   out, status, diag, elapsed, awaited, descending>>

\* P2_Load that does not read the counter: the task goes on with the value it
\* started with
P2_Load_Stale(i) ==
    /\ prog = 2 /\ status = "running"
    /\ tpc[i] = "locked"
    /\ tpc' = [tpc EXCEPT ![i] = "loaded"]
    /\ UNCHANGED <<prog, nworkers, mpc, k, handles, permits, counter, tmp, data,
                   strong, out, status, diag, elapsed, awaited, descending>>

\* *num += 1, the load of the read-modify-write
P2_Load(i) ==
    /\ prog = 2 /\ status = "running"
    /\ tpc[i] = "locked"
    /\ tmp' = [tmp EXCEPT ![i] = counter]
    /\ tpc' = [tpc EXCEPT ![i] = "loaded"]
    /\ UNCHANGED <<prog, nworkers, mpc, k, handles, permits, counter, data,
                   strong, out, status, diag, elapsed, awaited, descending>>

\* P2_Store of `*num = 1`
P2_Store_Assign(i) ==
    /\ prog = 2 /\ status = "running"
    /\ tpc[i] = "loaded"
    /\ counter' = 1
    /\ tmp' = [tmp EXCEPT ![i] = 0]
    /\ tpc' = [tpc EXCEPT ![i] = "stored"]
    /\ UNCHANGED <<prog, nworkers, mpc, k, handles, permits, data, strong, out,
                   status, diag, elapsed, awaited, descending>>

\* P2_Store of `*num += 2`
P2_Store_Double(i) ==
    /\ prog = 2 /\ status = "running"
    /\ tpc[i] = "loaded"
    /\ counter' = tmp[i] + 2
    /\ tmp' = [tmp EXCEPT ![i] = 0]
    /\ tpc' = [tpc EXCEPT ![i] = "stored"]
    /\ UNCHANGED <<prog, nworkers, mpc, k, handles, permits, data, strong, out,
                   status, diag, elapsed, awaited, descending>>

\* *num += 1, the store of the read-modify-write
P2_Store(i) ==
    /\ prog = 2 /\ status = "running"
    /\ tpc[i] = "loaded"
    /\ counter' = tmp[i] + 1
    /\ tmp' = [tmp EXCEPT ![i] = 0]
    /\ tpc' = [tpc EXCEPT ![i] = "stored"]
    /\ UNCHANGED <<prog, nworkers, mpc, k, handles, permits, data, strong, out,
                   status, diag, elapsed, awaited, descending>>

\* P2_Unlock of a guard that is leaked: the permit never goes back
P2_Unlock_Leak(i) ==
    /\ prog = 2 /\ status = "running"
    /\ tpc[i] = "stored"
    /\ EndTask(i, TRUE, 1)
    /\ UNCHANGED <<prog, nworkers, mpc, k, handles, permits, counter, tmp, data,
                   out, status, diag, elapsed, awaited>>

\* P2_Unlock of a body that loops: the guard is dropped and the task goes back
\* to lock().await
P2_Unlock_Again(i) ==
    /\ prog = 2 /\ status = "running"
    /\ tpc[i] = "stored"
    /\ permits' = permits + 1
    /\ tpc' = [tpc EXCEPT ![i] = "ready"]
    /\ UNCHANGED <<prog, nworkers, mpc, k, handles, counter, tmp, data, strong,
                   out, status, diag, elapsed, awaited, descending>>

\* end of the task's block: the guard `num` is dropped (the permit goes back),
\* then the captured Arc clone
P2_Unlock(i) ==
    /\ prog = 2 /\ status = "running"
    /\ tpc[i] = "stored"
    /\ permits' = permits + 1
    /\ EndTask(i, TRUE, 1)
    /\ UNCHANGED <<prog, nworkers, mpc, k, handles, counter, tmp, data, out,
                   status, diag, elapsed, awaited>>

\* for handle in handles { handle.await.unwrap(); }
P2_Join ==
    /\ prog = 2 /\ status = "running" /\ mpc = "join"
    /\ AwaitHead("lock")
    /\ UNCHANGED <<prog, nworkers, k, tpc, permits, counter, tmp, data, strong,
                   out, elapsed, descending>>

\* counter.lock().await of the final statement resolves
P2_MainLock ==
    /\ prog = 2 /\ status = "running" /\ mpc = "lock"
    /\ permits > 0
    /\ permits' = permits - 1
    /\ mpc' = "print"
    /\ UNCHANGED <<prog, nworkers, k, handles, tpc, counter, tmp, data, strong,
                   out, status, diag, elapsed, awaited, descending>>

\* println!("Counter: {}", *guard); the temporary guard is dropped at the end
\* of the statement, then main returns and drops its Arc
P2_Print ==
    /\ prog = 2 /\ status = "running" /\ mpc = "print"
    /\ out' = Append(out, CounterLine(counter))
    /\ permits' = permits + 1
    /\ strong' = strong - 1
    /\ mpc' = "end"
    /\ status' = "exit0"
    /\ UNCHANGED <<prog, nworkers, k, handles, tpc, counter, tmp, data, diag,
                   elapsed, awaited, descending>>

Program2 ==
    \/ P2_RuntimeNew \/ P2_Create \/ P2_Spawn
    \/ \E i \in TaskIds : P2_Lock(i)
    \/ \E i \in TaskIds : P2_Load(i)
    \/ \E i \in TaskIds : P2_Store(i)
    \/ \E i \in TaskIds : P2_Unlock(i)
    \/ P2_Join \/ P2_MainLock \/ P2_Print

\* ---------------------------------------------------------------- program 3

\* #[tokio::main]: the runtime is built and main's body is driven by block_on
P3_RuntimeNew ==
    /\ prog = 3 /\ status = "running"
    /\ \E ok \in BOOLEAN : RuntimeNew(ok, "create")
    /\ UNCHANGED <<prog, nworkers, k, handles, tpc, permits, counter, tmp, data,
                   strong, out, elapsed, awaited, descending>>

\* let data = Arc::new(vec![1, 2, 3, 4, 5]); let mut handles = vec![];
P3_Create ==
    /\ prog = 3 /\ status = "running" /\ mpc = "create"
    /\ data' = InitialData
    /\ strong' = 1
    /\ handles' = <<>>
    /\ mpc' = "spawn"
    /\ UNCHANGED <<prog, nworkers, k, tpc, permits, counter, tmp, out, status,
                   diag, elapsed, awaited, descending>>

\* P3_Spawn that hands the task the buffer without cloning the Arc
P3_Spawn_NoClone ==
    /\ prog = 3 /\ status = "running" /\ mpc = "spawn"
    /\ k < NumReaders
    /\ SpawnTask(k)
    /\ mpc' = IF k + 1 = NumReaders THEN "join" ELSE "spawn"
    /\ UNCHANGED <<prog, nworkers, permits, counter, tmp, data, strong, out,
                   status, diag, elapsed, awaited, descending>>

\* one turn of `for i in 0..3`: Arc::clone, tokio::spawn, handles.push
P3_Spawn ==
    /\ prog = 3 /\ status = "running" /\ mpc = "spawn"
    /\ k < NumReaders
    /\ strong' = strong + 1
    /\ SpawnTask(k)
    /\ mpc' = IF k + 1 = NumReaders THEN "join" ELSE "spawn"
    /\ UNCHANGED <<prog, nworkers, permits, counter, tmp, data, out, status,
                   diag, elapsed, awaited, descending>>

\* a worker starts polling task i
P3_Start(i) ==
    /\ prog = 3 /\ status = "running"
    /\ StartTask(i)
    /\ UNCHANGED <<prog, nworkers, mpc, k, handles, permits, counter, tmp, data,
                   strong, out, status, diag, elapsed, awaited, descending>>

\* P3_Print by a task that also removes the first element of the buffer
P3_Print_Mutates(i) ==
    /\ prog = 3 /\ status = "running"
    /\ tpc[i] = "running"
    /\ \E ok \in BOOLEAN :
         /\ EndTask(i, ok, 1)
         /\ out' = IF ok THEN Append(out, SeesLine(i, data)) ELSE out
    /\ data' = Tail(data)
    /\ UNCHANGED <<prog, nworkers, mpc, k, handles, permits, counter, tmp,
                   status, diag, elapsed, awaited>>

\* P3_Print by a body that reads the loop variable of the spawn loop instead of
\* its own copy of i
P3_Print_LoopVar(i) ==
    /\ prog = 3 /\ status = "running"
    /\ tpc[i] = "running"
    /\ \E ok \in BOOLEAN :
         /\ EndTask(i, ok, 1)
         /\ out' = IF ok THEN Append(out, SeesLine(k - 1, data)) ELSE out
    /\ UNCHANGED <<prog, nworkers, mpc, k, handles, permits, counter, tmp, data,
                   status, diag, elapsed, awaited>>

\* println!("Task {} sees: {:?}", i, data_clone): the line is written in one
\* write, or the write fails and println! panics inside the task; then
\* data_clone is dropped
P3_Print(i) ==
    /\ prog = 3 /\ status = "running"
    /\ tpc[i] = "running"
    /\ \E ok \in BOOLEAN :
         /\ EndTask(i, ok, 1)
         /\ out' = IF ok THEN Append(out, SeesLine(i, data)) ELSE out
    /\ UNCHANGED <<prog, nworkers, mpc, k, handles, permits, counter, tmp, data,
                   status, diag, elapsed, awaited>>

\* for handle in handles { handle.await.unwrap(); }
P3_Join ==
    /\ prog = 3 /\ status = "running" /\ mpc = "join"
    /\ AwaitHead("print")
    /\ UNCHANGED <<prog, nworkers, k, tpc, permits, counter, tmp, data, strong,
                   out, elapsed, descending>>

\* println!("All tasks completed"), then main returns and drops `data`
P3_AllDone ==
    /\ prog = 3 /\ status = "running" /\ mpc = "print"
    /\ out' = Append(out, AllDoneLine)
    /\ strong' = strong - 1
    /\ mpc' = "end"
    /\ status' = "exit0"
    /\ UNCHANGED <<prog, nworkers, k, handles, tpc, permits, counter, tmp, data,
                   diag, elapsed, awaited, descending>>

Program3 ==
    \/ P3_RuntimeNew \/ P3_Create \/ P3_Spawn
    \/ \E i \in TaskIds : P3_Start(i)
    \/ \E i \in TaskIds : P3_Print(i)
    \/ P3_Join \/ P3_AllDone

\* ---------------------------------------------------------------- specification

Next == Program1 \/ Program2 \/ Program3

Spec == Init /\ [][Next]_vars

\* The scheduler is weakly fair: while some step of the run is possible (a
\* runnable task, an elapsed timer, a resolvable await) a step is taken.
FairSpec == Spec /\ WF_vars(Next)

\* ---------------------------------------------------------------- properties

Printed(l) == \E n \in 1..Len(out) : out[n] = l

IsPrefix(s, t) == Len(s) <= Len(t) /\ \A n \in 1..Len(s) : s[n] = t[n]

\* tasks of program 2 inside their critical section
InCS == {i \in TaskIds : tpc[i] \in {"locked", "loaded", "stored"}}

\* the parent of program 2 holds the guard of its final statement
MainInCS == prog = 2 /\ mpc = "print"

\* the parent has left its join loop
PastJoin == mpc \in {"lock", "print", "shutdown", "end"}

\* C1: in program 2 the value the parent reads after awaiting all handles is
\* exactly the number of spawned tasks (10): whenever the parent is past its
\* join loop the counter is 10, and the only line the run ever prints is
\* "Counter: 10".
C1_FinalCounter ==
    prog = 2 =>
      /\ PastJoin => counter = NumIncrements
      /\ \A n \in 1..Len(out) : out[n] = CounterLine(NumIncrements)
      /\ status = "exit0" => out = <<CounterLine(NumIncrements)>>

C1_Witness ==
    /\ prog = 2 /\ status = "exit0"
    /\ out = <<CounterLine(10)>>
    /\ \A i \in TaskIds : tpc[i] = "done"

\* C2: in program 2 at most one of the ten tasks and the parent holds the
\* counter's lock at any time, the semaphore's permit count agrees with that,
\* and a task between the load and the store of its increment still sees the
\* value it loaded (nobody wrote the counter under it).
C2_MutualExclusion ==
    prog = 2 =>
      /\ Cardinality(InCS) + (IF MainInCS THEN 1 ELSE 0) <= 1
      /\ mpc \notin {"new", "create", "dead"} =>
           permits = 1 - (Cardinality(InCS) + (IF MainInCS THEN 1 ELSE 0))
      /\ \A i \in TaskIds : tpc[i] = "loaded" => tmp[i] = counter

C2_Witness ==
    /\ prog = 2
    /\ \E i, j \in TaskIds :
         /\ tpc[i] = "loaded" /\ tpc[j] = "ready"
         /\ permits = 0 /\ counter > 0

C4_FanInBarrier ==
    prog \in {2, 3} =>
      /\ PastJoin => \A i \in TaskIds : tpc[i] = "done"
      /\ (prog = 2 /\ PastJoin) => counter = NumIncrements /\ InCS = {}
      /\ (prog = 3 /\ Printed(AllDoneLine)) =>
           /\ Len(out) = NumReaders + 1
           /\ out[NumReaders + 1] = AllDoneLine
           /\ \A i \in TaskIds :
                \E n \in 1..NumReaders : out[n] = SeesLine(i, InitialData)

C4_Witness ==
    /\ prog = 3
    /\ Len(out) = 4 /\ out[4] = AllDoneLine
    /\ out[1].num = 2 /\ out[2].num = 0 /\ out[3].num = 1

\* C5: no handle is ever awaited twice, and when a program has printed its
\* final line and exited, every spawned task's handle has been awaited exactly
\* once: the awaited handles number 1, 10 and 3, the handles vector is used
\* up and no spawned task is still running.
C5_AwaitedOnce ==
    /\ \A i \in TaskIds : awaited[i] <= 1
    /\ status = "exit0" =>
         /\ \A i \in TaskIds : awaited[i] = 1 /\ Finished(i)
         /\ Cardinality({i \in TaskIds : awaited[i] = 1}) = NumTasks(prog)
         /\ k = NumTasks(prog)
         /\ handles = <<>>

C5_Witness ==
    /\ prog = 2 /\ status = "exit0"
    /\ Cardinality({i \in TaskIds : awaited[i] = 1}) = 10

\* C6: in program 3 the buffer holds [1,2,3,4,5] from its creation on, and
\* every "Task i sees" line shows exactly that content.
C6_BufferImmutable ==
    prog = 3 =>
      /\ mpc \notin {"new", "create", "dead"} => data = InitialData
      /\ strong > 0 => data = InitialData
      /\ \A n \in 1..Len(out) :
           out[n].text = SeesLine(0, <<>>).text => out[n].vec = <<1, 2, 3, 4, 5>>

C6_Witness ==
    /\ prog = 3
    /\ Len(out) >= 3
    /\ out[1] = SeesLine(2, <<1, 2, 3, 4, 5>>)
    /\ out[2] = SeesLine(1, <<1, 2, 3, 4, 5>>)
    /\ out[3] = SeesLine(0, <<1, 2, 3, 4, 5>>)

\* the last line of whichever program runs
FinalLine == CASE prog = 1 -> ShutdownLine
               [] prog = 2 -> CounterLine(counter)
               [] prog = 3 -> AllDoneLine

\* C7: once a spawned task has failed the parent never prints its final line
\* and never exits with status 0; when the parent has panicked at a join, the
\* message names the task whose handle it was awaiting, that task has failed,
\* and every handle ahead of it was awaited successfully.  Status 0 is reached
\* only with every join successful.
C7_FailureAborts ==
    /\ (\E i \in TaskIds : tpc[i] = "panicked") =>
         status # "exit0" /\ ~Printed(FinalLine) /\ ~PastJoin
    /\ (status = "panicked" /\ diag.what = "JoinError") =>
         /\ diag.task \in TaskIds
         /\ tpc[diag.task] = "panicked"
         /\ handles # <<>> /\ Head(handles) = diag.task
         /\ \A i \in TaskIds : awaited[i] = (IF i < diag.task THEN 1 ELSE 0)
    /\ status = "exit0" =>
         /\ diag = NoDiag
         /\ \A i \in TaskIds : tpc[i] = "done" /\ awaited[i] = 1

C7_Witness ==
    /\ prog = 3 /\ status = "panicked"
    /\ diag = [what |-> "JoinError", task |-> 1]
    /\ tpc[1] = "panicked" /\ tpc[0] = "done"
    /\ Len(out) = 2

\* a failure has happened: the runtime was not built, or a task's body panicked
Failed == diag.what # "none" \/ \E i \in TaskIds : tpc[i] = "panicked"

\* the run ended normally: every task ran to completion, the parent passed
\* every join and printed the final line
CompletedNormally ==
    /\ status = "exit0"
    /\ Printed(FinalLine)
    /\ \A i \in TaskIds : tpc[i] = "done" /\ awaited[i] = 1

C9_JoinOrder ==
    prog \in {2, 3} =>
      /\ \A n \in 1..Len(handles) : handles[n] = k - Len(handles) + n - 1
      /\ \A i \in TaskIds :
           awaited[i] = (IF i < k - Len(handles) THEN 1 ELSE 0)
      /\ \A i \in TaskIds : awaited[i] = 1 => tpc[i] = "done"
      /\ mpc = "spawn" => \A i \in TaskIds : awaited[i] = 0

\* the ten bodies finished in the order 9, 8, .., 0 (for every pair i < j task
\* j finished before task i), and the parent then observed 0, 1, .., 9
C9_Witness ==
    /\ prog = 2 /\ descending
    /\ \A i \in TaskIds : tpc[i] = "done" /\ awaited[i] = 1

\* C10: in program 2 the counter is always within 0..10 and changes only by
\* steps of +1, so a run in which it reaches 10 before the parent has awaited
\* anything has shown every value of 0..10 to a read made before the joins.
C10_PreJoinRange ==
    /\ [](prog = 2 => counter \in 0..NumIncrements)
    /\ [][prog = 2 => (counter' = counter \/ counter' = counter + 1)]_vars

C10_Witness ==
    /\ prog = 2 /\ mpc = "join"
    /\ Len(handles) = 10 /\ \A i \in TaskIds : awaited[i] = 0
    /\ counter = 10


\* C11: in program 1, when construction of the runtime has failed, main has
\* panicked on the spot: nothing was printed, no task was spawned, and no
\* further step (no second attempt) is possible.
C11_StartupFailureFatal ==
    (prog = 1 /\ diag.what = "Runtime::new") =>
      /\ status = "panicked" /\ mpc = "dead"
      /\ out = <<>>
      /\ k = 0 /\ handles = <<>> /\ tpc[0] = "none"
      /\ ~(ENABLED Next)

C11_Witness ==
    /\ prog = 1 /\ status = "panicked"
    /\ diag = [what |-> "Runtime::new", task |-> 0]
    /\ out = <<>> /\ tpc[0] = "none"


\* how far the body of a task of program 2 has got
Rank(p) == CASE p = "none"   -> 0
             [] p = "ready"  -> 1
             [] p = "locked" -> 2
             [] p = "loaded" -> 3
             [] p = "stored" -> 4
             [] p = "done"   -> 5
             [] OTHER        -> 6

\* C12: every task of program 2 goes once, and in order, through spawn,
\* acquire, load, store, release: the acquire takes the one permit, the store
\* adds exactly 1 to the counter, the release gives the permit back, and the
\* counter is written by nothing but the store of a task holding the guard.
C12_OneCycle ==
    [][prog = 2 =>
        /\ \A i \in TaskIds :
             /\ tpc'[i] # tpc[i] => Rank(tpc'[i]) = Rank(tpc[i]) + 1
             /\ (tpc[i] = "ready" /\ tpc'[i] = "locked") =>
                  permits = 1 /\ permits' = 0 /\ counter' = counter
             /\ (tpc[i] = "locked" /\ tpc'[i] = "loaded") =>
                  tmp'[i] = counter /\ counter' = counter /\ permits' = permits
             /\ (tpc[i] = "loaded" /\ tpc'[i] = "stored") =>
                  counter' = counter + 1 /\ permits' = permits
             /\ (tpc[i] = "stored" /\ tpc'[i] = "done") =>
                  permits = 0 /\ permits' = 1 /\ counter' = counter
             /\ tpc'[i] \notin {"panicked", "running", "sleeping"}
        /\ counter' # counter =>
             \E i \in TaskIds : tpc[i] = "loaded" /\ tpc'[i] = "stored"
    ]_vars

C12_Witness ==
    /\ prog = 2
    /\ tpc[0] = "done" /\ tpc[1] = "stored" /\ tpc[2] = "ready"
    /\ counter = 2 /\ permits = 0


\* C13: in program 2, under weak fairness, every task suspended at
\* lock().await gets the guard, and so does the parent at its final statement
\* (from some point on nobody is left at lock().await, and the only way out of
\* lock().await is with the guard);
\* the step that ends a critical section leaves the lock free; and the lock is
\* never held while no task and no parent is inside a critical section (a
\* finished task never keeps it).
C13_LockLiveness ==
    /\ <>[](prog = 2 =>
              /\ \A i \in TaskIds : tpc[i] # "ready"
              /\ mpc # "lock")
    /\ [][prog = 2 =>
            /\ \A i \in TaskIds :
                 (tpc[i] = "ready" /\ tpc'[i] # "ready") => tpc'[i] = "locked"
            /\ (mpc = "lock" /\ mpc' # "lock") => mpc' = "print"]_vars
    /\ [][prog = 2 =>
            \A i \in TaskIds :
              (tpc[i] \in {"locked", "loaded", "stored"} /\ Finished(i)')
                => permits' = 1]_vars
    /\ []((prog = 2 /\ permits = 0 /\ mpc \notin {"new", "create", "dead"})
            => (InCS # {} \/ MainInCS))

\* nine tasks are suspended at lock().await while the tenth holds the guard
C13_Witness ==
    /\ prog = 2 /\ permits = 0
    /\ tpc[9] = "locked"
    /\ \A i \in 0..8 : tpc[i] = "ready"


\* C14: in program 2 a critical section begins only when no other is open (so
\* the critical sections of a run are totally ordered), and the order is free:
\* whenever the lock is free, every task suspended at lock().await can be the
\* next to enter, whatever its spawn index and whatever the parent is awaiting;
\* from the state with all ten suspended every permutation can thus be built.
C14_AnyOrder ==
    /\ [][prog = 2 =>
            \A i \in TaskIds :
              (tpc[i] = "ready" /\ tpc'[i] = "locked")
                => (InCS = {} /\ ~MainInCS /\ InCS' = {i})]_vars
    /\ []((prog = 2 /\ permits > 0) =>
            \A i \in TaskIds : tpc[i] = "ready" => ENABLED P2_Lock(i))

\* the six tasks spawned last have had their critical sections in the order
\* 9, 8, 7, 6, 5, 4; the lock is free and tasks 0..3 are all still to enter
C14_Witness ==
    /\ prog = 2 /\ descending /\ permits = 1
    /\ \A i \in 4..9 : tpc[i] = "done"
    /\ \A i \in 0..3 : tpc[i] = "ready"
    /\ counter = 6
    /\ \A i \in 0..3 : ENABLED P2_Lock(i)


\* the places in the output of the lines "Task i sees: .."
SeesAt(i) == {n \in 1..Len(out) : out[n].text = SeesLine(i, <<>>).text
                                   /\ out[n].num = i}

\* C15: in program 3 a task whose body has completed has written exactly one
\* line, whole and tagged with its own spawn index, and no other task has
\* written any; a run that ends normally shows the indices 0, 1, 2 once each
\* and then "All tasks completed".  The order is free: every task being polled
\* can be the next to print, and every runnable task the next to be polled
\* when a worker is free, as long as the process lives.
C15_OneLineEach ==
    prog = 3 =>
      /\ \A i \in TaskIds :
           /\ Cardinality(SeesAt(i)) = (IF tpc[i] = "done" THEN 1 ELSE 0)
           /\ \A n \in SeesAt(i) : out[n] = SeesLine(i, InitialData)
           /\ (status = "running" /\ tpc[i] = "running") => ENABLED P3_Print(i)
           /\ (status = "running" /\ tpc[i] = "ready" /\ WorkerFree)
                => ENABLED P3_Start(i)
      /\ Len(out) = Cardinality({i \in TaskIds : tpc[i] = "done"})
                      + (IF status = "exit0" THEN 1 ELSE 0)
      /\ status = "exit0" =>
           /\ \A i \in TaskIds : Cardinality(SeesAt(i)) = 1
           /\ {out[n].num : n \in 1..NumReaders} = 0..(NumReaders - 1)

C15_Witness ==
    /\ prog = 3 /\ status = "exit0" /\ nworkers = 1
    /\ out = <<SeesLine(1, InitialData), SeesLine(2, InitialData),
               SeesLine(0, InitialData), AllDoneLine>>


\* spawned tasks whose body has not ended yet: each still owns its Arc clone
LiveTasks == {i \in TaskIds : tpc[i] \in {"ready", "running"}}

\* C16: in program 3 the buffer has at least as many owners as there are
\* spawned tasks still to complete (while main runs: exactly those and main),
\* and it is without owner, hence released, only before it is created or once
\* main has returned, by which time all three tasks have completed.
C16_BufferOutlivesTasks ==
    prog = 3 =>
      /\ strong >= Cardinality(LiveTasks)
      /\ (status = "running" /\ mpc \notin {"new", "create"}) =>
           strong = 1 + Cardinality(LiveTasks)
      /\ (strong = 0 /\ mpc \notin {"new", "create", "dead"}) =>
           /\ mpc = "end" /\ k = NumReaders
           /\ \A i \in TaskIds : tpc[i] = "done"
      /\ (strong = 0 /\ mpc = "dead") => diag.what = "Runtime::new"

\* two tasks have completed and dropped their clones; main and task 1 still
\* own the buffer
C16_Witness ==
    /\ prog = 3 /\ strong = 2
    /\ tpc[0] = "done" /\ tpc[2] = "done" /\ tpc[1] = "running"
    /\ data = <<1, 2, 3, 4, 5>>


\* tasks of program 2 that have completed the store of their increment
Incremented == {i \in TaskIds : tpc[i] \in {"stored", "done"}}

\* C17: in program 2 the counter always equals the number of tasks that have
\* completed their increment, so it lies in 0..10; a step raises it by exactly
\* 1 when one more task completes its increment and leaves it alone otherwise:
\* it never decreases and never skips a value.
C17_CounterCounts ==
    /\ [](prog = 2 =>
            /\ counter = Cardinality(Incremented)
            /\ counter >= 0 /\ counter <= NumIncrements)
    /\ [][prog = 2 =>
            /\ counter' >= counter
            /\ counter' - counter = Cardinality(Incremented' \ Incremented)
            /\ Cardinality(Incremented' \ Incremented) <= 1
            /\ Incremented \subseteq Incremented']_vars

C17_Witness ==
    /\ prog = 2 /\ counter = 7
    /\ Cardinality({i \in TaskIds : tpc[i] = "done"}) = 6
    /\ tpc[3] = "stored"
    /\ Cardinality({i \in TaskIds : tpc[i] = "ready"}) = 2
    /\ mpc = "spawn"


\* C18: in program 2, when the parent stands at its final lock().await all ten
\* handles have been awaited, the lock is free and no task is at lock().await
\* or inside a critical section, so the parent can take the lock at once; and
\* from the moment it has taken it no task can take the lock any more: the
\* permit is only given back.
C18_FinalLockUncontended ==
    /\ []((prog = 2 /\ mpc = "lock") =>
            /\ \A i \in TaskIds : awaited[i] = 1 /\ tpc[i] = "done"
            /\ permits = 1 /\ InCS = {}
            /\ ENABLED P2_MainLock
            /\ \A i \in TaskIds : ~(ENABLED P2_Lock(i)))
    /\ []((prog = 2 /\ mpc \in {"print", "end"}) =>
            \A i \in TaskIds : tpc[i] = "done" /\ ~(ENABLED P2_Lock(i)))
    /\ [][(prog = 2 /\ mpc \in {"lock", "print", "end"}) =>
            /\ permits' < permits => (mpc = "lock" /\ mpc' = "print")
            /\ tpc' = tpc]_vars

C18_Witness ==
    /\ prog = 2 /\ mpc = "print" /\ permits = 0
    /\ handles = <<>> /\ counter = 10
    /\ \A i \in TaskIds : awaited[i] = 1

====
